---- MODULE Spec2Model ----
(***************************************************************************)
(* Model of the camera ISBN scanner of biblioteca-scott (App.jsx):        *)
(* cleanISBN / isValidISBN, getBestVideoStream, and the CameraISBNScanner *)
(* effect: start(), the native loop, the software decodeLoop and the      *)
(* effect cleanup.  A "session" is one run of start(), i.e. one run of    *)
(* the effect body; the effect re-runs whenever the onDetected prop       *)
(* changes identity (dependency list [onDetected]).                       *)
(* Also the App's allow-list gate on the Firebase user (App.jsx) and the  *)
(* backup export / import of the Firestore data layer (data.js).          *)
(***************************************************************************)
EXTENDS Integers, Sequences, FiniteSets, TLC

(* ---------------------------- bounds ---------------------------------- *)
\* number of runs of the effect body (sessions) for one mounting
MaxSessions == 2
\* longest candidate sequence fed to the gate in GateSpec
MaxFeed == 4
\* longest run of digits in a raw text of CleanSpec (two runs per text)
MaxRun == 7

(* ------------------------ program constants --------------------------- *)
MaxISBNLen == 13
ShortISBNLen == 10
ConfirmHits == 2

(* ---------------------------- strings --------------------------------- *)
\* a string is a sequence of one-character strings
Digits == {"0", "1", "2", "3", "4", "5", "6", "7", "8", "9"}
Blank == {" "}

ISBN_A == <<"9", "7", "8", "0", "1", "3", "1", "1", "0", "3", "6", "2", "7">>
ISBN_B == <<"9", "7", "8", "0", "0", "0", "0", "0", "0", "0", "0", "0", "0">>
ISBN10_X == <<"0", "8", "0", "4", "4", "2", "9", "5", "7", "x">>
SHORT5 == <<"1", "2", "3", "4", "5">>
HYPHEN_A == <<" ", "9", "7", "8", "-", "0", "1", "3", "1", "1", "0", "3", "6", "2", "7", " ">>
LETTERS == <<"a", "b", "c">>
EMPTY == <<>>

\* rawValue of a BarcodeDetector restricted to formats ["ean_13"]
NativeRaw == {ISBN_A, ISBN_B}
\* text of a BrowserMultiFormatReader result (any symbology, any text)
SoftRaw == {ISBN_A, HYPHEN_A, ISBN10_X, SHORT5, LETTERS, EMPTY}

RECURSIVE TrimLeft(_)
TrimLeft(s) ==
  IF s = <<>> THEN s
  ELSE IF Head(s) \in Blank THEN TrimLeft(Tail(s)) ELSE s

RECURSIVE TrimRight(_)
TrimRight(s) ==
  IF s = <<>> THEN s
  ELSE IF s[Len(s)] \in Blank THEN TrimRight(SubSeq(s, 1, Len(s) - 1)) ELSE s

\* norm(s): (s||"").toString().trim()
norm(s) == TrimRight(TrimLeft(s))

\* (the replace without the g flag: only the first offending character goes)
KeepISBNCharsFirstOnly(s) ==
  LET bad == {i \in 1..Len(s) : s[i] \notin Digits \cup {"X", "x"}}
  IN  IF bad = {} THEN s
      ELSE LET i == CHOOSE j \in bad : \A k \in bad : j <= k
           IN  SubSeq(s, 1, i - 1) \o SubSeq(s, i + 1, Len(s))

\* .replace(/[^0-9Xx]/g, "")
KeepISBNChars(s) == SelectSeq(s, LAMBDA c : c \in Digits \cup {"X", "x"})

\* (mutation: no .toUpperCase())
toUpperCaseSkipped(s) == s

\* .toUpperCase() on the characters that survive the filter
toUpperCase(s) == [i \in 1..Len(s) |-> IF s[i] = "x" THEN "X" ELSE s[i]]

cleanISBN(raw) ==
  LET s == toUpperCase(KeepISBNChars(norm(raw)))
  IN  IF Len(s) > MaxISBNLen THEN SubSeq(s, 1, MaxISBNLen) ELSE s

isValidISBN(s) ==
  LET x == cleanISBN(s)
  IN  Len(x) = ShortISBNLen \/ Len(x) = MaxISBNLen

(* ------------------------- stability gate ----------------------------- *)
\* the shared stability update of loop and decodeLoop, applied to a
\* non-empty cleaned candidate:
\*   if (last.value === cleaned) last.hits += 1;
\*   else lastRef.current = { value: cleaned, hits: 1 };
\* (the update that never counts: hits stays 1 on an equal candidate)
GateUpdateNeverCounts(last, cleaned) == [value |-> cleaned, hits |-> 1]

\* (the update with the equality test dropped: every candidate counts a hit)
GateUpdateAlwaysHit(last, cleaned) == [value |-> cleaned, hits |-> last.hits + 1]

GateUpdate(last, cleaned) ==
  IF last.value = cleaned
    THEN [value |-> last.value, hits |-> last.hits + 1]
    ELSE [value |-> cleaned, hits |-> 1]

\* if (cleaned) { ...update... }  -- an empty string is falsy
GateObserve(last, cleaned) ==
  IF cleaned # <<>> THEN GateUpdate(last, cleaned) ELSE last

\* the confirmation test with > in place of >=
GateConfirmsAboveTwo(last, cleaned) ==
  cleaned # <<>> /\ GateObserve(last, cleaned).hits > ConfirmHits

\* if (cleaned) { ...; if (lastRef.current.hits >= 2) { onDetected(cleaned); return; } }
GateConfirms(last, cleaned) ==
  cleaned # <<>> /\ GateObserve(last, cleaned).hits >= ConfirmHits

InitialLast == [value |-> <<>>, hits |-> 0]

(* ------------------------------ state --------------------------------- *)
Sessions == 1..MaxSessions

VARIABLES
  mounted,      \* videoRef.current is the <video> element (null after unmount)
  native,       \* supportsBarcodeDetector()
  stopRef,      \* stopRef.current
  streamRef,    \* streamRef.current: 0 = null, s = the stream session s acquired
  srcObject,    \* video.srcObject: 0 = unset, s = the stream session s acquired
  lastRef,      \* lastRef.current
  error,        \* the error state of the component
  status,       \* the status state of the component
  nsess,        \* number of runs of the effect body so far
  pc,           \* per session: the await / timer the session is suspended at
  stream,       \* per session: "none", "live" or "stopped" (its tracks)
  cancelled,    \* per session: the cleanup of its effect run has executed
  looped,       \* per session: an iteration of loop/decodeLoop passed the stop check
  detected,     \* the calls of onDetected so far, in order
  lastAttempt,  \* cleaned result of the latest completed decode attempt of any loop
  lastRead,     \* latest non-empty cleaned candidate any loop has produced
  feed,         \* GateSpec: candidates still to be fed
  fed,          \* GateSpec: candidates fed so far
  confirms,     \* GateSpec: the confirmation result of each candidate fed
  txt,          \* CleanSpec: a raw text and what cleanISBN / isValidISBN make of it
  cond,         \* FrameSpec: a video frame and what one loop iteration makes of it
  auth,         \* AuthSpec: the Firebase user, the App's auth state, pending calls
  lib           \* BackupSpec: the Firestore documents and a backup taken of them

vars == <<mounted, native, stopRef, streamRef, srcObject, lastRef, error, status,
          nsess, pc, stream, cancelled, looped, detected, lastAttempt,
          lastRead, feed, fed, confirms, txt, cond, auth, lib>>

gateVars == <<feed, fed, confirms>>

pureVars == <<txt, cond, auth, lib>>

\* values of txt, cond, auth and lib while they are not under study
NoText == [stage |-> "none"]
NoFrame == [stage |-> "none"]
NoAuth == [stage |-> "none"]
NoLib == [stage |-> "none"]

\* positions of a session
Suspended == {"gum1", "enum", "gum2", "gum3", "focus", "play",
              "timer", "detect", "stimer", "sdecode"}
Terminated == {"returned", "failed"}


(* --------------------------- environment ------------------------------ *)
\* labels that match /back|rear|environment/i
BackLabels == {"Back Camera", "REAR cam"}

FrontCam == [label |-> "FaceTime HD", deviceId |-> "d1"]
BackCam == [label |-> "Back Camera", deviceId |-> "d2"]
Unlabelled == [label |-> "", deviceId |-> ""]

\* results of enumerateDevices() filtered to kind "videoinput"
DeviceLists == {<<>>, <<Unlabelled>>, <<FrontCam>>, <<FrontCam, BackCam>>}

\* devices.find(d => /back|rear|environment/i.test(d.label || "")), then
\* (back || devices[0] || null)?.deviceId || undefined   ("" stands for undefined)
pickBestCamera(devices) ==
  LET backs == {i \in 1..Len(devices) : devices[i].label \in BackLabels}
  IN  IF backs # {}
        THEN devices[CHOOSE i \in backs : \A j \in backs : i <= j].deviceId
        ELSE IF Len(devices) > 0 THEN devices[1].deviceId ELSE ""

\* what a frame grab of one native iteration can do
FrameOutcomes == {"captured", "nodims", "throws"}

\* what one decode call can yield
NoCode == [t |-> "none", raw |-> <<>>]
Throws == [t |-> "throw", raw |-> <<>>]
Value(raw) == [t |-> "value", raw |-> raw]
DetectOutcomes == {NoCode, Throws} \cup {Value(r) : r \in NativeRaw}
DecodeOutcomes == {Throws} \cup {Value(r) : r \in SoftRaw}

(* ------------------------------ Init ---------------------------------- *)
\* the component has mounted and the effect body has run once: stopRef is
\* false and start() is suspended in getBestVideoStream at attempt 1
Init ==
  /\ mounted = TRUE
  /\ native \in BOOLEAN
  /\ stopRef = FALSE
  /\ streamRef = 0
  /\ srcObject = 0
  /\ lastRef = InitialLast
  /\ error = ""
  /\ status = "Cerco la fotocamera"
  /\ nsess = 1
  /\ pc = [s \in Sessions |-> IF s = 1 THEN "gum1" ELSE "idle"]
  /\ stream = [s \in Sessions |-> "none"]
  /\ cancelled = [s \in Sessions |-> FALSE]
  /\ looped = [s \in Sessions |-> FALSE]
  /\ detected = <<>>
  /\ lastAttempt = <<>>
  /\ lastRead = <<>>
  /\ feed = <<>>
  /\ fed = <<>>
  /\ confirms = <<>>
  /\ txt = NoText
  /\ cond = NoFrame
  /\ auth = NoAuth
  /\ lib = NoLib

(* ------------------------- effect lifecycle --------------------------- *)
\* s.getTracks().forEach(t => t.stop()) on streamRef.current
StopTracks(ref, st) == IF ref = 0 THEN st ELSE [st EXCEPT ![ref] = "stopped"]

\* the effect cleanup: stopRef.current = true; stop the tracks of streamRef.current
Cleanup ==
  /\ stream' = StopTracks(streamRef, stream)
  /\ cancelled' = [cancelled EXCEPT ![nsess] = TRUE]

\* onDetected changed identity: cleanup of the previous run, then the effect
\* body again: stopRef.current = false; start() up to its first await.
\* onDetectedISBN begins with setScannerOpen(false), so no render after a
\* call of onDetected still contains the scanner: the effect re-runs only
\* before the first call.
EffectRerun ==
  /\ mounted
  /\ nsess < MaxSessions
  /\ detected = <<>>
  /\ Cleanup
  /\ stopRef' = FALSE
  /\ error' = ""
  /\ status' = "Cerco la fotocamera"
  /\ nsess' = nsess + 1
  /\ pc' = [pc EXCEPT ![nsess + 1] = "gum1"]
  /\ UNCHANGED <<mounted, native, streamRef, srcObject, lastRef, looped, detected,
                 lastAttempt, lastRead, gateVars, pureVars>>

\* the scanner is closed: the ref is detached and the cleanup runs
Unmount ==
  /\ mounted
  /\ mounted' = FALSE
  /\ Cleanup
  /\ stopRef' = TRUE
  /\ UNCHANGED <<native, streamRef, srcObject, lastRef, error, status, nsess, pc,
                 looped, detected, lastAttempt, lastRead, gateVars, pureVars>>

\* onDetectedISBN has called setScannerOpen(false): the next commit removes
\* the scanner, which is an unmount
CloseAfterDetected ==
  /\ detected # <<>>
  /\ Unmount

(* ------------------------ getBestVideoStream -------------------------- *)
\* start() after "stream = await getBestVideoStream()":
\*   streamRef.current = stream; if (!videoRef.current) return;
\*   video.srcObject = stream; await tryApplyFocus(track)
Acquired(s) ==
  /\ stream' = [stream EXCEPT ![s] = "live"]
  /\ streamRef' = s
  /\ srcObject' = IF mounted THEN s ELSE srcObject
  /\ pc' = [pc EXCEPT ![s] = IF mounted THEN "focus" ELSE "returned"]
  /\ UNCHANGED <<error, status>>

\* the catch of start(): setError(...), setStatus("") (state of a mounted component)
StartFailed(s) ==
  /\ error' = IF mounted THEN "Errore camera" ELSE error
  /\ status' = IF mounted THEN "" ELSE status
  /\ pc' = [pc EXCEPT ![s] = "failed"]

AcquireFrame == <<mounted, native, stopRef, lastRef, nsess, cancelled, looped,
                  detected, lastAttempt, lastRead, gateVars, pureVars>>

\* (mutation: a rejected attempt 1 falls through to attempt 3 at once)
Gum1DoneThenGeneric(s) ==
  /\ pc[s] = "gum1"
  /\ \/ Acquired(s)
     \/ /\ pc' = [pc EXCEPT ![s] = "gum3"]
        /\ UNCHANGED <<stream, streamRef, srcObject, error, status>>
  /\ UNCHANGED AcquireFrame

\* attempt 1 (facingMode environment) settles
Gum1Done(s) ==
  /\ pc[s] = "gum1"
  /\ \/ Acquired(s)
     \/ /\ pc' = [pc EXCEPT ![s] = "enum"]
        /\ UNCHANGED <<stream, streamRef, srcObject, error, status>>
  /\ UNCHANGED AcquireFrame

\* enumerateDevices settles: attempt 2 is requested only for a truthy deviceId
EnumDone(s) ==
  /\ pc[s] = "enum"
  /\ \/ \E devices \in DeviceLists :
          /\ pc' = [pc EXCEPT ![s] = IF pickBestCamera(devices) # "" THEN "gum2" ELSE "gum3"]
     \/ /\ pc' = [pc EXCEPT ![s] = "gum3"]
  /\ UNCHANGED <<stream, streamRef, srcObject, error, status>>
  /\ UNCHANGED AcquireFrame

\* attempt 2 (deviceId exact) settles
Gum2Done(s) ==
  /\ pc[s] = "gum2"
  /\ \/ Acquired(s)
     \/ /\ pc' = [pc EXCEPT ![s] = "gum3"]
        /\ UNCHANGED <<stream, streamRef, srcObject, error, status>>
  /\ UNCHANGED AcquireFrame

\* attempt 3 (video: true) settles; its rejection leaves getBestVideoStream
Gum3Done(s) ==
  /\ pc[s] = "gum3"
  /\ \/ Acquired(s)
     \/ /\ StartFailed(s)
        /\ UNCHANGED <<stream, streamRef, srcObject>>
  /\ UNCHANGED AcquireFrame

\* tryApplyFocus never rejects; start() goes on to "await video.play()"
FocusDone(s) ==
  /\ pc[s] = "focus"
  /\ pc' = [pc EXCEPT ![s] = "play"]
  /\ UNCHANGED <<stream, streamRef, srcObject, error, status>>
  /\ UNCHANGED AcquireFrame

(* ------------------------------ loops --------------------------------- *)
\* loop() from its top to its first suspension: the stop check, the frame
\* grab (skipped without video dimensions), crop and binarization, and the
\* call of detector.detect; a throwing grab falls to setTimeout(loop, 120)
LoopHead(s, frame) ==
  /\ pc' = [pc EXCEPT ![s] = IF stopRef THEN "returned"
                             ELSE IF frame = "captured" THEN "detect" ELSE "timer"]
  /\ looped' = [looped EXCEPT ![s] = @ \/ ~stopRef]

\* decodeLoop() from its top to "await reader.decodeOnceFromVideoElement(video)"
DecodeLoopHead(s) ==
  /\ pc' = [pc EXCEPT ![s] = IF stopRef THEN "returned" ELSE "sdecode"]
  /\ looped' = [looped EXCEPT ![s] = @ \/ ~stopRef]

\* video.play() settles: on success setStatus and the first call of loop()
\* or decodeLoop(); a rejection goes to the catch of start()
PlayDone(s) ==
  /\ pc[s] = "play"
  /\ \/ /\ status' = IF mounted THEN "Inquadra il codice a barre ISBN" ELSE status
        /\ IF native THEN \E frame \in FrameOutcomes : LoopHead(s, frame)
                     ELSE DecodeLoopHead(s)
        /\ UNCHANGED error
     \/ /\ StartFailed(s)
        /\ UNCHANGED looped
  /\ UNCHANGED <<mounted, native, stopRef, streamRef, srcObject, lastRef, nsess,
                 stream, cancelled, detected, lastAttempt, lastRead, gateVars, pureVars>>

\* setTimeout(loop, 120) fires
LoopTimer(s) ==
  /\ pc[s] = "timer"
  /\ \E frame \in FrameOutcomes : LoopHead(s, frame)
  /\ UNCHANGED <<mounted, native, stopRef, streamRef, srcObject, lastRef, error,
                 status, nsess, stream, cancelled, detected, lastAttempt, lastRead,
                 gateVars, pureVars>>

\* setTimeout(decodeLoop, 120) fires
DecodeLoopTimer(s) ==
  /\ pc[s] = "stimer"
  /\ DecodeLoopHead(s)
  /\ UNCHANGED <<mounted, native, stopRef, streamRef, srcObject, lastRef, error,
                 status, nsess, stream, cancelled, detected, lastAttempt, lastRead,
                 gateVars, pureVars>>

\* the part of loop / decodeLoop after the decode call has settled: clean the
\* text, update lastRef, then either onDetected(cleaned) and return, or
\* setTimeout(.., 120); a throw and an empty result go straight to the timer
AfterDecode(s, out, timer) ==
  LET cleaned == IF out.t = "value" THEN cleanISBN(out.raw) ELSE <<>>
      confirmed == GateConfirms(lastRef, cleaned)
  IN  /\ lastRef' = GateObserve(lastRef, cleaned)
      /\ detected' = IF confirmed
                       THEN Append(detected, [s |-> s, v |-> cleaned, hits |-> lastRef'.hits])
                       ELSE detected
      /\ pc' = [pc EXCEPT ![s] = IF confirmed THEN "returned" ELSE timer]
      /\ lastAttempt' = cleaned
      /\ lastRead' = IF cleaned # <<>> THEN cleaned ELSE lastRead
      /\ UNCHANGED <<mounted, native, stopRef, streamRef, srcObject, error, status,
                     nsess, stream, cancelled, looped, gateVars, pureVars>>

\* detector.detect(canvas) settles
DetectDone(s) ==
  /\ pc[s] = "detect"
  /\ \E out \in DetectOutcomes : AfterDecode(s, out, "timer")

\* reader.decodeOnceFromVideoElement(video) settles
DecodeDone(s) ==
  /\ pc[s] = "sdecode"
  /\ \E out \in DecodeOutcomes : AfterDecode(s, out, "stimer")

(* ------------------------- the specification -------------------------- *)
Next ==
  \/ EffectRerun
  \/ Unmount
  \/ CloseAfterDetected
  \/ \E s \in Sessions : Gum1Done(s)
  \/ \E s \in Sessions : EnumDone(s)
  \/ \E s \in Sessions : Gum2Done(s)
  \/ \E s \in Sessions : Gum3Done(s)
  \/ \E s \in Sessions : FocusDone(s)
  \/ \E s \in Sessions : PlayDone(s)
  \/ \E s \in Sessions : LoopTimer(s)
  \/ \E s \in Sessions : DetectDone(s)
  \/ \E s \in Sessions : DecodeLoopTimer(s)
  \/ \E s \in Sessions : DecodeDone(s)

Spec == Init /\ [][Next]_vars

\* React commits the state update that onDetectedISBN queued
FairSpec == Spec /\ WF_vars(CloseAfterDetected)

(* ------------------- the stability gate on its own -------------------- *)
\* raw candidates that pass isValidISBN
ValidRaw == {r \in NativeRaw \cup SoftRaw : isValidISBN(r)}

FeedSeqs == UNION {[1..k -> ValidRaw] : k \in 1..MaxFeed}

\* no scanner is mounted; a sequence of valid candidates waits to be fed to
\* a gate in its initial state
GateInit ==
  /\ mounted = FALSE
  /\ native = FALSE
  /\ stopRef = TRUE
  /\ streamRef = 0
  /\ srcObject = 0
  /\ lastRef = InitialLast
  /\ error = ""
  /\ status = ""
  /\ nsess = 1
  /\ pc = [s \in Sessions |-> "idle"]
  /\ stream = [s \in Sessions |-> "none"]
  /\ cancelled = [s \in Sessions |-> FALSE]
  /\ looped = [s \in Sessions |-> FALSE]
  /\ detected = <<>>
  /\ lastAttempt = <<>>
  /\ lastRead = <<>>
  /\ feed \in FeedSeqs
  /\ fed = <<>>
  /\ confirms = <<>>
  /\ txt = NoText
  /\ cond = NoFrame
  /\ auth = NoAuth
  /\ lib = NoLib

\* one pass through the gate lines of loop / decodeLoop with the next candidate
GateFeed ==
  /\ feed # <<>>
  /\ LET cleaned == cleanISBN(Head(feed))
     IN  /\ lastRef' = GateObserve(lastRef, cleaned)
         /\ confirms' = Append(confirms, GateConfirms(lastRef, cleaned))
         /\ fed' = Append(fed, cleaned)
         /\ lastAttempt' = cleaned
         /\ lastRead' = IF cleaned # <<>> THEN cleaned ELSE lastRead
  /\ feed' = Tail(feed)
  /\ UNCHANGED <<mounted, native, stopRef, streamRef, srcObject, error, status,
                 nsess, pc, stream, cancelled, looped, detected, pureVars>>

GateNext == GateFeed

GateSpec == GateInit /\ [][GateNext]_vars

(* ------------------- cleanISBN / isValidISBN alone -------------------- *)
\* the scanner variables and the gate variables while no scanner is mounted
ScannerIdle ==
  /\ mounted = FALSE
  /\ native = FALSE
  /\ stopRef = TRUE
  /\ streamRef = 0
  /\ srcObject = 0
  /\ lastRef = InitialLast
  /\ error = ""
  /\ status = ""
  /\ nsess = 1
  /\ pc = [s \in Sessions |-> "idle"]
  /\ stream = [s \in Sessions |-> "none"]
  /\ cancelled = [s \in Sessions |-> FALSE]
  /\ looped = [s \in Sessions |-> FALSE]
  /\ detected = <<>>
  /\ lastAttempt = <<>>
  /\ lastRead = <<>>
  /\ feed = <<>>
  /\ fed = <<>>
  /\ confirms = <<>>

scannerVars == <<mounted, native, stopRef, streamRef, srcObject, lastRef, error,
                 status, nsess, pc, stream, cancelled, looped, detected,
                 lastAttempt, lastRead, gateVars>>

Rep(c, n) == [i \in 1..n |-> c]

\* what may stand before, between and after the two runs of digits
Pieces == {<<>>, <<"X">>, <<"x">>, <<"-">>, <<" ">>, <<"a">>}

\* raw texts: piece, run of "1", piece, run of "2", piece
RawTexts ==
  {pre \o Rep("1", k1) \o mid \o Rep("2", k2) \o post :
     pre \in Pieces, mid \in Pieces, post \in Pieces,
     k1 \in 0..MaxRun, k2 \in 0..MaxRun}

CleanInit ==
  /\ ScannerIdle
  /\ txt \in {[stage |-> "raw", input |-> r] : r \in RawTexts}
  /\ cond = NoFrame
  /\ auth = NoAuth
  /\ lib = NoLib

\* cleanISBN(raw) and isValidISBN(raw) are evaluated
CleanText ==
  /\ txt.stage = "raw"
  /\ txt' = [stage |-> "cleaned", input |-> txt.input,
             cleaned |-> cleanISBN(txt.input), valid |-> isValidISBN(txt.input)]
  /\ UNCHANGED <<scannerVars, cond, auth, lib>>

\* cleanISBN is applied to its own result, as onDetectedISBN and
\* googleBooksSearch do with a value that was cleaned before
CleanAgain ==
  /\ txt.stage = "cleaned"
  /\ txt' = [stage |-> "again", input |-> txt.input, cleaned |-> txt.cleaned,
             valid |-> txt.valid, again |-> cleanISBN(txt.cleaned)]
  /\ UNCHANGED <<scannerVars, cond, auth, lib>>

CleanNext == CleanText \/ CleanAgain

CleanSpec == CleanInit /\ [][CleanNext]_vars

(* ------------- one native loop iteration on one video frame ------------ *)
\* frame sides 0..MaxDim are all tried, next to a few real video sizes
MaxDim == 12

Widths == (0..MaxDim) \cup {640, 1000}
Heights == (0..MaxDim) \cup {480, 800}

\* channel values of the pixels tried
Levels == {0, 11, 91, 160, 161, 162, 251, 255}
Pixels == {<<r, g, b>> : r \in Levels, g \in Levels, b \in Levels}
Gray(n) == <<n, n, n>>
White == Gray(255)
Black == Gray(0)

\* d[i]*0.299 + d[i+1]*0.587 + d[i+2]*0.114, times 1000, without rounding
Luma1000(p) == 299 * p[1] + 587 * p[2] + 114 * p[3]

\* the pixels of Pixels for which the sum of the three double products
\* comes out just below the whole number that the exact sum is
RoundsBelow ==
  {Gray(11), Gray(91), Gray(162), Gray(251), <<11, 251, 91>>}

\* (mutation: the comparison is made on the luma before "| 0")
BinarizeUntruncated(p) == IF Luma1000(p) > 160000 THEN White ELSE Black

\* const g = (...) | 0; const v = g > 160 ? 255 : 0; d[i] = d[i+1] = d[i+2] = v
Binarize(p) ==
  LET g == IF p \in RoundsBelow THEN (Luma1000(p) \div 1000) - 1
           ELSE Luma1000(p) \div 1000
      v == IF g > 160 THEN 255 ELSE 0
  IN  Gray(v)

\* (mutation: Math.round in place of Math.floor)
CropRounded(w, h) ==
  [cx |-> (w * 10 + 50) \div 100, cy |-> (h * 55 + 50) \div 100,
   cw |-> (w * 80 + 50) \div 100, ch |-> (h * 30 + 50) \div 100]

\* cx, cy, cw, ch: Math.floor of w*0.10, h*0.55, w*0.80, h*0.30; for sides
\* up to 20000 the double products floor to the same integers as these
Crop(w, h) ==
  [cx |-> (w * 10) \div 100, cy |-> (h * 55) \div 100,
   cw |-> (w * 80) \div 100, ch |-> (h * 30) \div 100]

\* point (x, y) lies in the rectangle read by getImageData(cx, cy, cw, ch)
InCrop(c, x, y) ==
  /\ c.cx <= x /\ x < c.cx + c.cw
  /\ c.cy <= y /\ y < c.cy + c.ch

\* columns and rows tried for the pixel under study: the corners of the
\* frame and both sides of each edge of the crop
ProbeX(w, h) ==
  LET c == Crop(w, h)
  IN  {0, c.cx - 1, c.cx, c.cx + c.cw - 1, c.cx + c.cw, w - 1} \cap (0..(w - 1))
ProbeY(w, h) ==
  LET c == Crop(w, h)
  IN  {0, c.cy - 1, c.cy, c.cy + c.ch - 1, c.cy + c.ch, h - 1} \cap (0..(h - 1))

\* a frame, the pixel under study at (x, y), and whether an EAN-13 symbol is
\* printed at (x, y): every pixel on the 1000 x 800 frame inside the crop,
\* the two grays at the threshold on every frame at every probe point, and
\* the frames without pixels
Frames ==
  {[w |-> 1000, h |-> 800, x |-> 500, y |-> 500, px |-> p, code |-> FALSE] :
     p \in Pixels}
  \cup
  UNION {UNION {{[w |-> fw, h |-> fh, x |-> fx, y |-> fy, px |-> p, code |-> k] :
                   fx \in ProbeX(fw, fh), fy \in ProbeY(fw, fh),
                   p \in {Gray(160), Gray(161)}, k \in BOOLEAN} :
                fw \in Widths} : fh \in Heights}
  \cup
  {[w |-> d[1], h |-> d[2], x |-> 0, y |-> 0, px |-> Gray(161), code |-> FALSE] :
     d \in {e \in Widths \X Heights : e[1] = 0 \/ e[2] = 0}}

FrameInit ==
  /\ ScannerIdle
  /\ txt = NoText
  /\ cond \in {[stage |-> "raw", frame |-> f] : f \in Frames}
  /\ auth = NoAuth
  /\ lib = NoLib

\* if (w && h) is false: nothing is drawn and no detection is made; the
\* iteration falls to setTimeout(loop, 120)
SkipFrame ==
  /\ cond.stage = "raw"
  /\ cond.frame.w = 0 \/ cond.frame.h = 0
  /\ cond' = [stage |-> "skipped", frame |-> cond.frame, next |-> "setTimeout"]
  /\ UNCHANGED <<scannerVars, txt, auth, lib>>

\* (mutation: if (w || h) in place of if (w && h))
ConditionFrameEitherSide ==
  /\ cond.stage = "raw"
  /\ cond.frame.w # 0 \/ cond.frame.h # 0
  /\ LET f == cond.frame
         c == Crop(f.w, f.h)
     IN  cond' = [stage |-> "conditioned", frame |-> f, crop |-> c,
                  canvas |-> [width |-> f.w, height |-> f.h],
                  out |-> IF InCrop(c, f.x, f.y) THEN Binarize(f.px) ELSE f.px]
  /\ UNCHANGED <<scannerVars, txt, auth, lib>>

\* canvas.width = w, canvas.height = h, drawImage, getImageData of the crop,
\* the loop over its pixels, putImageData at (cx, cy): the canvas keeps the
\* frame's size, and only the pixels of the crop are replaced
ConditionFrame ==
  /\ cond.stage = "raw"
  /\ cond.frame.w # 0 /\ cond.frame.h # 0
  /\ LET f == cond.frame
         c == Crop(f.w, f.h)
     IN  cond' = [stage |-> "conditioned", frame |-> f, crop |-> c,
                  canvas |-> [width |-> f.w, height |-> f.h],
                  out |-> IF InCrop(c, f.x, f.y) THEN Binarize(f.px) ELSE f.px]
  /\ UNCHANGED <<scannerVars, txt, auth, lib>>

\* await detector.detect(canvas): the detector is given the canvas, and may
\* or may not find a symbol that is printed within the image it is given
DetectFrame ==
  /\ cond.stage = "conditioned"
  /\ \E found \in BOOLEAN :
       /\ found => /\ cond.frame.code
                   /\ cond.frame.x < cond.canvas.width
                   /\ cond.frame.y < cond.canvas.height
       /\ cond' = [stage |-> "detected", frame |-> cond.frame,
                   crop |-> cond.crop, canvas |-> cond.canvas,
                   out |-> cond.out, handed |-> cond.canvas,
                   candidate |-> found]
  /\ UNCHANGED <<scannerVars, txt, auth, lib>>

FrameNext == SkipFrame \/ ConditionFrame \/ DetectFrame

FrameSpec == FrameInit /\ [][FrameNext]_vars

(* ------------------- App: authentication and allow-list ---------------- *)
\* sign-in requests (doLogin, doSignup) issued from the AuthGate
MaxLogins == 2
\* clicks on logout
MaxLogouts == 1

ALLOWED_EMAILS == {"paolodandrea27@gmail.com", "niccolodonatodandrea@gmail.com"}

\* what is typed into the email field, after norm
TypedEmails == {"paolodandrea27@gmail.com", "PaoloDandrea27@Gmail.com",
                "ospite@example.com"}

\* String.prototype.toLowerCase on the emails above
toLowerCase_email(em) ==
  IF em = "PaoloDandrea27@Gmail.com" THEN "paolodandrea27@gmail.com" ELSE em

\* ALLOWED_EMAILS.map(x => x.toLowerCase()).includes((em||"").toLowerCase())
allowed(em) ==
  toLowerCase_email(em) \in {toLowerCase_email(x) : x \in ALLOWED_EMAILS}

\* the callback given to onAuthStateChanged, run with user u ("" for null)
\* up to its first await: a user off the list leaves "await signOut(auth)"
\* pending, and setAuthed(false) waits behind it
AuthCallback(a, u) ==
  LET c == [a EXCEPT !.authChecked = TRUE]
  IN  IF u = "" THEN [c EXCEPT !.authed = FALSE, !.userEmail = ""]
      ELSE IF ~allowed(u) THEN [c EXCEPT !.signOuts.callback = @ + 1]
      ELSE [c EXCEPT !.authed = TRUE, !.userEmail = u]

\* Firebase changes its current user and tells the listener of the change
SetUser(a, u) ==
  IF u = a.user THEN a ELSE AuthCallback([a EXCEPT !.user = u], u)

AuthInit ==
  /\ ScannerIdle
  /\ txt = NoText
  /\ cond = NoFrame
  /\ lib = NoLib
  /\ auth \in {[stage |-> "run", user |-> u, booted |-> FALSE,
                authChecked |-> FALSE, authed |-> FALSE, userEmail |-> "",
                requests |-> {}, issued |-> 0, logouts |-> 0,
                signOuts |-> [callback |-> 0, login |-> 0, logout |-> 0]] :
               u \in {""} \cup TypedEmails}

authFrame == <<scannerVars, txt, cond, lib>>

\* the first call of the listener after onAuthStateChanged(auth, ...), with
\* the user Firebase has kept from the last visit
AuthRestore ==
  /\ auth.stage = "run"
  /\ ~auth.booted
  /\ auth' = AuthCallback([auth EXCEPT !.booted = TRUE], auth.user)
  /\ UNCHANGED authFrame

\* the AuthGate is what App renders: if(!authed) return <AuthGate/>
AuthGateShown == auth.stage = "run" /\ auth.authChecked /\ ~auth.authed

\* doLogin up to "await signInWithEmailAndPassword(auth, norm(email), pass)"
doLogin(em) ==
  /\ AuthGateShown
  /\ auth.issued < MaxLogins
  /\ auth' = [auth EXCEPT !.issued = @ + 1,
                          !.requests = @ \cup {[n |-> auth.issued + 1,
                                                kind |-> "login", email |-> em]}]
  /\ UNCHANGED authFrame

\* doSignup up to "await createUserWithEmailAndPassword(auth, em, pass)";
\* an email off the list returns before anything is requested
doSignup(email) ==
  /\ AuthGateShown
  /\ auth.issued < MaxLogins
  /\ LET em == toLowerCase_email(email)
     IN  auth' = IF ~allowed(em) THEN [auth EXCEPT !.issued = @ + 1]
                 ELSE [auth EXCEPT !.issued = @ + 1,
                                   !.requests = @ \cup {[n |-> auth.issued + 1,
                                                         kind |-> "signup", email |-> em]}]
  /\ UNCHANGED authFrame

\* a sign-in or sign-up request settles: rejected (the catch sets a status),
\* or fulfilled: the user changes, the listener runs, and doLogin goes on to
\* "await signOut(auth)" if cred.user.email is off the list
SignInDone(r) ==
  /\ auth.stage = "run"
  /\ r \in auth.requests
  /\ LET a == [auth EXCEPT !.requests = @ \ {r}]
     IN  \/ auth' = a
         \/ auth' = LET b == SetUser(a, r.email)
                    IN  IF r.kind = "login" /\ ~allowed(r.email)
                          THEN [b EXCEPT !.signOuts.login = @ + 1]
                          ELSE b
  /\ UNCHANGED authFrame

\* logout up to "await signOut(auth)" (the TopBar is rendered while authed)
logout ==
  /\ auth.stage = "run"
  /\ auth.authChecked /\ auth.authed
  /\ auth.logouts < MaxLogouts
  /\ auth' = [auth EXCEPT !.logouts = @ + 1, !.signOuts.logout = @ + 1]
  /\ UNCHANGED authFrame

\* a pending signOut(auth) settles: the user becomes null, the listener runs
\* if that is a change, and the caller goes on: the listener callback and
\* logout with setAuthed(false); setUserEmail(""), doLogin with a status
SignOutDone(k) ==
  /\ auth.stage = "run"
  /\ auth.signOuts[k] > 0
  /\ auth' = LET b == SetUser([auth EXCEPT !.signOuts[k] = @ - 1], "")
             IN  IF k \in {"callback", "logout"}
                   THEN [b EXCEPT !.authed = FALSE, !.userEmail = ""]
                   ELSE b
  /\ UNCHANGED authFrame

AuthNext ==
  \/ AuthRestore
  \/ \E em \in TypedEmails : doLogin(em)
  \/ \E em \in TypedEmails : doSignup(em)
  \/ \E r \in auth.requests : SignInDone(r)
  \/ logout
  \/ \E k \in {"callback", "login", "logout"} : SignOutDone(k)

AuthSpec == AuthInit /\ [][AuthNext]_vars

(* ------------------ data.js: the Firestore data layer ------------------ *)
\* upsertBook / deleteBook / setLocations calls in one run
MaxOps == 3

BookIds == {"b1", "b2"}

\* arguments of upsertBook: a whole book, or some of its fields (merge)
BookArgs ==
  UNION {{[id |-> i, title |-> "Il nome della rosa", notes |-> ""],
          [id |-> i, title |-> "Ivanhoe", notes |-> "prestato"],
          [id |-> i, notes |-> "regalo"]} : i \in BookIds}

defaults == <<"salone", "camera matrimoniale", "camera Niki", "camera Francesco",
              "camera Cecilia", "studio">>

\* arguments of setLocations
LocArgs == {<<>>, <<"studio">>, <<"salone", "cantina">>}

NoDocs == [i \in {} |-> <<>>]

\* setDoc(ref, book, { merge: true }) on the document of id book.id
upsertBook(docs, book) ==
  LET old == IF book.id \in DOMAIN docs THEN docs[book.id] ELSE [f \in {} |-> ""]
      new == [f \in DOMAIN old \cup DOMAIN book |->
                IF f \in DOMAIN book THEN book[f] ELSE old[f]]
  IN  [i \in DOMAIN docs \cup {book.id} |-> IF i = book.id THEN new ELSE docs[i]]

\* deleteDoc(ref)
deleteBook(docs, id) == [i \in DOMAIN docs \ {id} |-> docs[i]]

\* snap.docs.map(d => ({ id: d.id, ...d.data() })); the books as a set, the
\* sort by author and title left out
listBooks(docs) ==
  {[f \in {"id"} \cup DOMAIN docs[i] |->
      IF f \in DOMAIN docs[i] THEN docs[i][f] ELSE i] : i \in DOMAIN docs}

\* getLocations: what it returns, and the settings document after it (a
\* missing document is written with the defaults)
getLocations(meta) ==
  IF ~meta.exists
    THEN [locs |-> defaults, meta |-> [exists |-> TRUE, locations |-> defaults]]
    ELSE [locs |-> IF Len(meta.locations) > 0 THEN meta.locations ELSE <<"salone">>,
          meta |-> meta]

\* setDoc(ref, { locations: locs }, { merge: true })
setLocations(meta, locs) == [exists |-> TRUE, locations |-> locs]

\* for (const b of existing) await deleteBook(b.id)
RECURSIVE DeleteAll(_, _)
DeleteAll(docs, bs) ==
  IF bs = {} THEN docs
  ELSE LET b == CHOOSE x \in bs : TRUE
       IN  DeleteAll(deleteBook(docs, b.id), bs \ {b})

\* for (const b of incoming) { if (!b.id) continue; await upsertBook(b); }
RECURSIVE UpsertAll(_, _)
UpsertAll(docs, bs) ==
  IF bs = {} THEN docs
  ELSE LET b == CHOOSE x \in bs : TRUE
       IN  UpsertAll(IF b.id = "" THEN docs ELSE upsertBook(docs, b), bs \ {b})

\* (mutation: the books already stored are kept whatever the mode)
ClearForModeNever(docs, mode) == docs

\* if (mode === "replace") { existing = await listBooks(); delete each }
ClearForMode(docs, mode) ==
  IF mode = "replace" THEN DeleteAll(docs, listBooks(docs)) ELSE docs

\* importBackupJSON(payload, { mode }): the documents and the settings after it
importBackupJSON(docs, meta, payload, mode) ==
  [meta |-> IF Len(payload.locations) > 0 THEN setLocations(meta, payload.locations)
            ELSE meta,
   docs |-> UpsertAll(ClearForMode(docs, mode), payload.books)]

LibInit ==
  /\ ScannerIdle
  /\ txt = NoText
  /\ cond = NoFrame
  /\ auth = NoAuth
  /\ lib = [stage |-> "open", docs |-> NoDocs, meta |-> [exists |-> FALSE],
            ops |-> 0]

libFrame == <<scannerVars, txt, cond, auth>>

\* the library is in use before and after the backup is taken
LibOpen == lib.stage \in {"open", "exported"} /\ lib.ops < MaxOps

UpsertBook(book) ==
  /\ LibOpen
  /\ lib' = [lib EXCEPT !.docs = upsertBook(lib.docs, book), !.ops = @ + 1]
  /\ UNCHANGED libFrame

DeleteBook(id) ==
  /\ LibOpen
  /\ lib' = [lib EXCEPT !.docs = deleteBook(lib.docs, id), !.ops = @ + 1]
  /\ UNCHANGED libFrame

SetLocations(locs) ==
  /\ lib.stage = "open" /\ lib.ops < MaxOps
  /\ lib' = [lib EXCEPT !.meta = setLocations(lib.meta, locs), !.ops = @ + 1]
  /\ UNCHANGED libFrame

\* exportBackupJSON(): listBooks, getLocations, and the payload returned;
\* atExport keeps the documents as they were at that moment
ExportBackup ==
  /\ lib.stage = "open"
  /\ LET g == getLocations(lib.meta)
     IN  lib' = [stage |-> "exported", docs |-> lib.docs, meta |-> g.meta,
                 ops |-> lib.ops, atExport |-> lib.docs,
                 payload |-> [locations |-> g.locs, books |-> listBooks(lib.docs)]]
  /\ UNCHANGED libFrame

\* importBackupJSON(P, { mode: "replace" }); before keeps the documents
\* found by the import
ImportBackup ==
  /\ lib.stage = "exported"
  /\ LET r == importBackupJSON(lib.docs, lib.meta, lib.payload, "replace")
     IN  lib' = [stage |-> "imported", docs |-> r.docs, meta |-> r.meta,
                 ops |-> lib.ops, atExport |-> lib.atExport,
                 payload |-> lib.payload, before |-> lib.docs]
  /\ UNCHANGED libFrame

LibNext ==
  \/ \E book \in BookArgs : UpsertBook(book)
  \/ \E id \in BookIds : DeleteBook(id)
  \/ \E locs \in LocArgs : SetLocations(locs)
  \/ ExportBackup
  \/ ImportBackup

BackupSpec == LibInit /\ [][LibNext]_vars

(* ------------------------------ claims -------------------------------- *)
Last(q) == q[Len(q)]

\* session s leaves a suspended decode call in this step
DecodeSettles(s) == pc[s] \in {"detect", "sdecode"} /\ pc'[s] # pc[s]

\* session s grabs a frame and calls the detector, or calls the software decoder
DecodeIssued(s) == pc'[s] \in {"detect", "sdecode"} /\ pc'[s] # pc[s]

\* onDetected is called by session s in this step
DetectedBy(s) == detected' # detected /\ Last(detected').s = s

\* C1: for one mounting, over all loops it ever starts, onDetected is called
\* at most once, and exactly once when the gate has reached a confirmation.
C1_DetectedAtMostOnce ==
  /\ Len(detected) <= 1
  /\ lastRef.hits >= ConfirmHits => Len(detected) = 1

\* C2: every value passed to onDetected has normalized length exactly 10 or
\* exactly 13 (isValidISBN holds for it) and was confirmed with hits >= 2.
C2_DetectedValidTwice ==
  \A i \in 1..Len(detected) :
    /\ Len(detected[i].v) \in {ShortISBNLen, MaxISBNLen}
    /\ isValidISBN(detected[i].v)
    /\ detected[i].hits >= ConfirmHits

\* C3: a decode attempt whose candidate is invalid (empty, or of normalized
\* length other than 10 or 13) leaves lastRef unchanged and confirms nothing.
C3_InvalidLeavesGate ==
  [][\A s \in Sessions :
       (DecodeSettles(s) /\ Len(lastAttempt') \notin {ShortISBNLen, MaxISBNLen})
         => (lastRef' = lastRef /\ detected' = detected)]_vars

\* C4: no state has a session terminated (by confirmation, cancellation or
\* error), with no step of it pending, and the stream it acquired still live.
C4_TerminatedReleased ==
  \A s \in Sessions : pc[s] \in Terminated => stream[s] # "live"

\* C5: after teardown of the scanner and completion of every pending step,
\* no acquired stream is live, also when the acquisition settled after teardown.
C5_TeardownReleasesAll ==
  (~mounted /\ \A s \in Sessions : pc[s] \in Terminated \cup {"idle"})
    => \A s \in Sessions : stream[s] # "live"

\* C6: once the cleanup of a session has run, that session issues no further
\* frame capture or decode call and never calls onDetected, also when a new
\* session has been started on the same component.
C6_NoWorkAfterCancel ==
  [][\A s \in Sessions : cancelled[s] => ~DecodeIssued(s) /\ ~DetectedBy(s)]_vars

\* C7: the result of a decode call that settles while the cancellation flag
\* of its session is set is discarded: it does not update lastRef and does
\* not call onDetected (the timer the code may still arm is not counted as
\* an iteration: its callback returns at the stop check).
C7_InFlightDiscarded ==
  [][\A s \in Sessions :
       (cancelled[s] /\ stopRef /\ DecodeSettles(s))
         => (lastRef' = lastRef /\ detected' = detected)]_vars

\* C8 as stated, for a valid v: onDetected(v) fires only if the current
\* decode attempt and the immediately preceding decode attempt, misses
\* included, both produced v.
C8_PrecedingAttemptSame ==
  [][(detected' # detected /\ isValidISBN(Last(detected').v))
       => (lastAttempt' = Last(detected').v /\ lastAttempt = Last(detected').v)]_vars

\* C8 amended: onDetected(v) fires only if the current decode attempt
\* produced v and the most recent earlier attempt of the mounting that
\* produced a non-empty normalized candidate produced v too; attempts that
\* found nothing in between are skipped, not counted.
C8_PrecedingReadSame ==
  [][detected' # detected
       => (lastAttempt' = Last(detected').v /\ lastRead = Last(detected').v)]_vars

\* session 1 has confirmed ISBN_A on its second equal read
C8_Witness ==
  /\ Len(detected) = 1
  /\ detected[1] = [s |-> 1, v |-> ISBN_A, hits |-> ConfirmHits]
  /\ lastRead = ISBN_A
  /\ lastRef = [value |-> ISBN_A, hits |-> ConfirmHits]

\* number of equal consecutive candidates that end at position i of q
RECURSIVE RunLen(_, _)
RunLen(q, i) ==
  IF i > 1 /\ q[i] = q[i - 1] THEN RunLen(q, i - 1) + 1 ELSE 1

\* C9: fed valid candidates from {"", 0}, the gate counts hits + 1 on a
\* candidate equal to lastValue and otherwise replaces lastValue with hits 1,
\* and confirms iff hits >= 2: [a, a] confirms on the 2nd call, [a, b, b]
\* does not confirm on the 2nd and confirms on the 3rd.
C9_GateCountsRuns ==
  /\ Len(confirms) = Len(fed)
  /\ fed = <<>> => lastRef = InitialLast
  /\ fed # <<>> => lastRef = [value |-> Last(fed), hits |-> RunLen(fed, Len(fed))]
  /\ \A i \in 1..Len(fed) : confirms[i] = (RunLen(fed, i) >= 2)
  /\ (Len(fed) >= 2 /\ fed[1] = fed[2]) => confirms[2]
  /\ (Len(fed) >= 3 /\ fed[1] # fed[2] /\ fed[2] = fed[3])
       => (~confirms[2] /\ confirms[3])

\* the sequence [a, b, b] has been fed
C9_Witness ==
  /\ fed = <<ISBN_A, ISBN_B, ISBN_B>>
  /\ confirms = <<FALSE, FALSE, TRUE>>
  /\ lastRef = [value |-> ISBN_B, hits |-> 2]

\* C10: a session whose start() failed has called onDetected never, has run
\* no loop iteration, leaves no camera stream open, and stays failed: it
\* requests nothing further.
C10_FailedStartLeavesNothing ==
  [][\A s \in Sessions :
       /\ pc[s] = "failed" => pc'[s] = "failed"
       /\ pc'[s] = "failed"
            => /\ stream'[s] # "live"
               /\ ~looped'[s]
               /\ \A i \in 1..Len(detected') : detected'[i].s # s]_vars

DigitsEdgeX(c) ==
  \A i \in 1..Len(c) : c[i] \in Digits \/ (c[i] = "X" /\ i \in {1, Len(c)})

\* C12: isValidISBN(s) holds iff cleanISBN(s) has length exactly 10 or 13
\* and consists only of digits with optionally an "X" in leading or trailing
\* position.
C12_ValidIffLengthAndShape ==
  txt.stage \in {"cleaned", "again"}
    => (txt.valid <=> (/\ Len(txt.cleaned) \in {ShortISBNLen, MaxISBNLen}
                       /\ DigitsEdgeX(txt.cleaned)))

\* C13: cleanISBN(cleanISBN(s)) = cleanISBN(s) for every string s.
C13_CleanIdempotent ==
  txt.stage = "again" => txt.again = txt.cleaned

\* a text that cleanISBN filtered, upper-cased and truncated, cleaned again
C13_Witness ==
  /\ txt.stage = "again"
  /\ Len(txt.input) > MaxISBNLen + 2
  /\ Len(txt.cleaned) = MaxISBNLen
  /\ txt.cleaned[1] = "X"
  /\ txt.input[1] = "x"
  /\ txt.again = txt.cleaned

\* the pixel under study was inside the crop and has been conditioned
Conditioned ==
  /\ cond.stage \in {"conditioned", "detected"}
  /\ InCrop(cond.crop, cond.frame.x, cond.frame.y)

\* C14 as stated: a pixel inside the crop comes out white if and only if
\* its luma 0.299R + 0.587G + 0.114B is strictly greater than 160, and black
\* otherwise.
C14_WhiteIffLumaAbove160 ==
  Conditioned =>
    /\ cond.out = White <=> Luma1000(cond.frame.px) > 160000
    /\ cond.out # White => cond.out = Black

\* C14 amended: a pixel inside the crop comes out white or black; white when
\* its luma is greater than 161, black when it is less than 161 (the luma is
\* cut to a whole number before it is compared with 160); at luma 161
\* exactly it is white unless the double sum falls short of 161; gray 161
\* comes out white and gray 160 black.
C14_WhiteIffWholeLumaAbove160 ==
  Conditioned =>
    LET p == cond.frame.px
    IN  /\ cond.out \in {White, Black}
        /\ Luma1000(p) > 161000 => cond.out = White
        /\ Luma1000(p) < 161000 => cond.out = Black
        /\ Luma1000(p) = 161000 => (cond.out = White <=> p \notin RoundsBelow)
        /\ p = Gray(161) => cond.out = White
        /\ p = Gray(160) => cond.out = Black

\* a pixel of luma 160.299 inside the crop has come out black
C14_Witness ==
  /\ Conditioned
  /\ cond.frame.px = <<161, 160, 160>>
  /\ cond.out = Black

\* C15: the crop is x = floor(0.10 W), y = floor(0.55 H), width =
\* floor(0.80 W), height = floor(0.30 H), it lies inside the frame, and for
\* W = 1000, H = 800 it is (100, 440) with size (800, 240).
C15_CropFloorsInsideFrame ==
  cond.stage \in {"conditioned", "detected"} =>
    LET c == cond.crop
        W == cond.frame.w
        H == cond.frame.h
    IN  /\ 100 * c.cx <= 10 * W /\ 10 * W < 100 * (c.cx + 1)
        /\ 100 * c.cy <= 55 * H /\ 55 * H < 100 * (c.cy + 1)
        /\ 100 * c.cw <= 80 * W /\ 80 * W < 100 * (c.cw + 1)
        /\ 100 * c.ch <= 30 * H /\ 30 * H < 100 * (c.ch + 1)
        /\ c.cx + c.cw <= W
        /\ c.cy + c.ch <= H
        /\ (W = 1000 /\ H = 800) =>
             c = [cx |-> 100, cy |-> 440, cw |-> 800, ch |-> 240]

\* a frame whose sides are not multiples of ten has been cropped
C15_Witness ==
  /\ cond.stage = "conditioned"
  /\ cond.frame.w = 7 /\ cond.frame.h = 9
  /\ cond.crop = [cx |-> 0, cy |-> 4, cw |-> 5, ch |-> 2]

\* C19: the image handed to the detector has the dimensions of the crop,
\* and a symbol lying outside the crop never produces a candidate.
C19_DetectorGetsCropOnly ==
  cond.stage = "detected" =>
    /\ cond.handed.width = cond.crop.cw
    /\ cond.handed.height = cond.crop.ch
    /\ cond.candidate => InCrop(cond.crop, cond.frame.x, cond.frame.y)

\* sessions with a detector or decoder call in flight
InFlight == {s \in Sessions : pc[s] \in {"detect", "sdecode"}}

\* C16: at any moment at most one capture/decode attempt is in flight for a
\* mounted scanner, and a new one is issued only when none is in flight.
C16_OneAttemptInFlight ==
  /\ mounted => Cardinality(InFlight) <= 1
  /\ [][\A s \in Sessions : (mounted /\ DecodeIssued(s)) => InFlight = {}]_vars

\* C17: at the start of every scan session, a re-run of the effect on a
\* mounted component included, the stability state is {value: "", hits: 0}.
\* (Shown on states in which the gate holds nothing or a valid ISBN.)
C17_SessionStartsFromEmptyGate ==
  [][(nsess' # nsess /\ (lastRef.hits = 0 \/ isValidISBN(lastRef.value)))
       => lastRef' = InitialLast]_vars

\* C18: after a confirmation the stability state is never mutated again and
\* no further frame is captured or decoded by any loop of the component.
\* (Shown on the native path, where every read is a valid EAN-13.)
C18_NothingAfterConfirmation ==
  [][(detected # <<>> /\ native) =>
       /\ lastRef' = lastRef
       /\ \A s \in Sessions : ~DecodeIssued(s)]_vars

\* C20: while a session is neither cancelled nor confirmed, a decode attempt
\* that finds no code, yields an invalid candidate or throws is followed by
\* the scheduling of another attempt, and changes neither the error state
\* nor the stability state.
C20_FailedAttemptOnlyReschedules ==
  [][\A s \in Sessions :
       (/\ ~cancelled[s]
        /\ detected = <<>>
        /\ DecodeSettles(s)
        /\ ~isValidISBN(lastAttempt'))
       => /\ pc'[s] \in {"timer", "stimer"}
          /\ error' = error
          /\ lastRef' = lastRef]_vars

\* positions of a session inside getBestVideoStream
Acquiring == {"gum1", "enum", "gum2", "gum3"}

\* C21: getBestVideoStream requests strategy 1, then 2, then 3: a later one
\* only after every earlier one has failed or did not apply; the first
\* request that succeeds is returned and nothing is requested after it;
\* acquisition fails if and only if the attempted strategies all fail,
\* the last of which is strategy 3.
C21_StrategiesInOrder ==
  [][\A s \in Sessions :
       /\ (pc'[s] = "gum1" /\ pc[s] # "gum1") => pc[s] = "idle"
       /\ (pc'[s] = "enum" /\ pc[s] # "enum") =>
            (pc[s] = "gum1" /\ stream'[s] = "none")
       /\ (pc'[s] = "gum2" /\ pc[s] # "gum2") =>
            (pc[s] = "enum" /\ stream'[s] = "none")
       /\ (pc'[s] = "gum3" /\ pc[s] # "gum3") =>
            (pc[s] \in {"enum", "gum2"} /\ stream'[s] = "none")
       /\ (stream[s] = "none" /\ stream'[s] = "live") =>
            (pc[s] \in {"gum1", "gum2", "gum3"} /\ pc'[s] \in {"focus", "returned"})
       /\ pc[s] \notin Acquiring \cup {"idle"} => pc'[s] \notin Acquiring
       /\ (pc[s] \in Acquiring /\ pc'[s] \notin Acquiring) =>
            (stream'[s] = "none" <=> (pc[s] = "gum3" /\ pc'[s] = "failed"))]_vars

\* every strategy of session 1 has failed: start() ended in its catch
\* without a stream
C21_Witness ==
  /\ pc[1] = "failed"
  /\ stream[1] = "none"
  /\ error = "Errore camera"

\* the digits and X/x of s in their order, x written as X
RECURSIVE KeptUpper(_)
KeptUpper(s) ==
  IF s = <<>> THEN <<>>
  ELSE (IF Head(s) \in Digits THEN <<Head(s)>>
        ELSE IF Head(s) \in {"X", "x"} THEN <<"X">>
        ELSE <<>>) \o KeptUpper(Tail(s))

\* C22: cleanISBN returns the digits and X/x of its input, in their order,
\* upper-cased and cut to the first 13; the result holds only 0-9 and X and
\* is at most 13 long.
C22_CleanIsKeptUpperCut ==
  txt.stage \in {"cleaned", "again"} =>
    LET k == KeptUpper(txt.input)
        n == IF Len(k) > 13 THEN 13 ELSE Len(k)
    IN  /\ txt.cleaned = SubSeq(k, 1, n)
        /\ \A i \in 1..Len(txt.cleaned) : txt.cleaned[i] \in Digits \cup {"X"}
        /\ Len(txt.cleaned) <= 13

\* a text with a blank in front, a small x inside, a hyphen at the end and
\* more than 13 kept characters has been cleaned
C22_Witness ==
  /\ txt.stage = "cleaned"
  /\ Len(txt.input) > 13
  /\ txt.input[1] = " "
  /\ \E i \in 2..Len(txt.input) : txt.input[i] = "x"
  /\ txt.input[Len(txt.input)] = "-"
  /\ Len(KeptUpper(txt.input)) > 13
  /\ Len(txt.cleaned) = 13
  /\ \E i \in 1..13 : txt.cleaned[i] = "X"

\* C23: on the native path an iteration that finds the video width or
\* height 0 captures nothing, conditions nothing and decodes nothing,
\* leaves the stability state as it was, and schedules the next iteration.
C23_NoDimsSkipsToTimer ==
  (cond.stage # "none" /\ (cond.frame.w = 0 \/ cond.frame.h = 0)) =>
    /\ cond.stage \in {"raw", "skipped"}
    /\ cond.stage = "skipped" =>
         /\ DOMAIN cond = {"stage", "frame", "next"}
         /\ cond.next = "setTimeout"
    /\ lastRef = InitialLast

\* an iteration on a frame of width 0 and height 480 has been skipped
C23_Witness ==
  /\ cond.stage = "skipped"
  /\ cond.frame.w = 0
  /\ cond.frame.h = 480

\* C24: authed is true only while the current Firebase user's email is in
\* ALLOWED_EMAILS (compared without regard to case): a user off the list
\* never has the library views rendered.
C24_AuthedOnlyWhileAllowed ==
  (auth.stage = "run" /\ auth.authed) => (auth.user # "" /\ allowed(auth.user))

\* C25: a backup P taken in library state S, then any upsertBook and
\* deleteBook calls, then importBackupJSON(P, {mode: "replace"}): the books
\* stored are exactly those of S, with the same ids and fields, and
\* getLocations() returns the locations recorded in P.
C25_ReplaceImportRestores ==
  lib.stage = "imported" =>
    /\ lib.docs = lib.atExport
    /\ listBooks(lib.docs) = lib.payload.books
    /\ getLocations(lib.meta).locs = lib.payload.locations

\* the import found a library that had lost a book of the backup and gained
\* another, and has put back the one book of the backup
C25_Witness ==
  /\ lib.stage = "imported"
  /\ DOMAIN lib.atExport = {"b1"}
  /\ DOMAIN lib.before = {"b2"}
  /\ DOMAIN lib.docs = {"b1"}
  /\ lib.docs["b1"] = [id |-> "b1", title |-> "Ivanhoe", notes |-> "prestato"]

====
